---------------------------- MODULE Spec2Model ----------------------------
(***************************************************************************)
(* fastjsonschema/summary.py: SummaryWriter, the recursive formatter that  *)
(* turns a decoded schema tree into an indented text summary.              *)
(*                                                                         *)
(* Text is a TLA+ string, i.e. a sequence of characters: Len, \o and       *)
(* SubSeq are the operations of Sequences.  A schema node is a record      *)
(*   [t |-> "dict" | "list" | "str" | "int" | "bool" | "null",             *)
(*    s |-> the text of a str, n |-> the number of an int or bool,         *)
(*    kids |-> the (key, value) items of a dict in insertion order, or the *)
(*             elements of a list (with key "")]                           *)
(* A call returns [exc, none, s]: the exception it raised (or ""), whether *)
(* it returned None, and the string it returned.                           *)
(***************************************************************************)
EXTENDS Integers, Sequences, FiniteSets

VARIABLES jargon, terms, defaultPath, ncalls, args, schema, result, first

vars == <<jargon, terms, defaultPath, ncalls, args, schema, result, first>>

----------------------------------------------------------------------------
(* Characters and Python's textual conversions                              *)

Char(s, i) == SubSeq(s, i, i)

Has(s, c) == \E i \in 1..Len(s) : Char(s, i) = c

UpperCase == "ABCDEFGHIJKLMNOPQRSTUVWXYZ"

LowerCase == "abcdefghijklmnopqrstuvwxyz"

DigitChars == "0123456789"

CharsOf(s) == {Char(s, i) : i \in 1..Len(s)}

UpperChars == CharsOf(UpperCase)

WordChars == CharsOf(UpperCase) \cup CharsOf(LowerCase) \cup CharsOf(DigitChars) \cup {"_"}

\* [A-Z]
IsUpper(c) == c \in UpperChars

\* \w (on the ASCII characters the model draws text from)
IsWord(c) == c \in WordChars

\* str.lower, one character
lower_char(c) ==
    IF IsUpper(c)
    THEN Char(LowerCase, CHOOSE i \in 1..Len(UpperCase) : Char(UpperCase, i) = c)
    ELSE c

RECURSIVE lower(_)
lower(s) == IF s = "" THEN "" ELSE lower_char(Head(s)) \o lower(Tail(s))

RECURSIVE Spaces(_)
Spaces(n) == IF n <= 0 THEN "" ELSE " " \o Spaces(n - 1)

RECURSIVE NatRepr(_)
NatRepr(n) ==
    IF n < 10 THEN Char(DigitChars, n + 1)
    ELSE NatRepr(n \div 10) \o Char(DigitChars, (n % 10) + 1)

\* repr / str of an int
IntRepr(n) == IF n < 0 THEN "-" \o NatRepr(-n) ELSE NatRepr(n)

\* The body of repr(str): backslash, line break and the chosen quote are escaped.
RECURSIVE Escape(_, _)
Escape(s, quote) ==
    IF s = "" THEN ""
    ELSE LET c == Head(s)
         IN  (IF c = "\\" THEN "\\\\"
              ELSE IF c = "\n" THEN "\\n"
              ELSE IF c = quote THEN "\\" \o c
              ELSE c) \o Escape(Tail(s), quote)

\* repr(str): single quotes, unless the text holds a single and no double quote
StrRepr(s) ==
    LET quote == IF Has(s, "'") /\ ~Has(s, "\"") THEN "\"" ELSE "'"
    IN  quote \o Escape(s, quote) \o quote

IsContainer(node) == node.t \in {"dict", "list"}

RECURSIVE JoinText(_, _)
JoinText(sep, parts) ==
    IF parts = <<>> THEN ""
    ELSE IF Len(parts) = 1 THEN parts[1]
    ELSE parts[1] \o sep \o JoinText(sep, Tail(parts))

\* repr(value) of any node: {value!r} at line 105, repr at lines 125 and 162
RECURSIVE repr(_)
repr(node) ==
    CASE node.t = "str"  -> StrRepr(node.s)
      [] node.t = "int"  -> IntRepr(node.n)
      [] node.t = "bool" -> IF node.n = 1 THEN "True" ELSE "False"
      [] node.t = "null" -> "None"
      [] node.t = "list" ->
            "[" \o JoinText(", ", [i \in 1..Len(node.kids) |-> repr(node.kids[i].v)]) \o "]"
      [] node.t = "dict" ->
            "{" \o JoinText(", ", [i \in 1..Len(node.kids) |->
                        StrRepr(node.kids[i].k) \o ": " \o repr(node.kids[i].v)]) \o "}"

\* str(value) of a scalar, as an f-string formats it (line 167)
format(node) == IF node.t = "str" THEN node.s ELSE repr(node)

----------------------------------------------------------------------------
(* Results of calls                                                         *)

Ok(s) == [exc |-> "", none |-> FALSE, s |-> s]

Raise(e) == [exc |-> e, none |-> FALSE, s |-> ""]

None == [exc |-> "", none |-> TRUE, s |-> ""]

\* Two pieces written one after the other: the first exception ends the call.
Cat(a, b) ==
    IF a.exc # "" THEN a
    ELSE IF b.exc # "" THEN b
    ELSE Ok(a.s \o b.s)

\* sep.join(parts) over a generator: parts are produced left to right.
RECURSIVE join(_, _)
join(sep, parts) ==
    IF parts = <<>> THEN Ok("")
    ELSE IF Len(parts) = 1 THEN parts[1]
    ELSE Cat(Cat(parts[1], Ok(sep)), join(sep, Tail(parts)))

----------------------------------------------------------------------------
(* separate_terms                                                           *)

\* The end of the longest run of [^A-Z\W] that follows position i.
RECURSIVE RunEnd(_, _)
RunEnd(word, i) ==
    IF i < Len(word) /\ IsWord(Char(word, i + 1)) /\ ~IsUpper(Char(word, i + 1))
    THEN RunEnd(word, i + 1)
    ELSE i

\* `if w`: empty pieces are dropped.
Keep(acc, piece) == IF piece = "" THEN acc ELSE Append(acc, lower(piece))

\* re.split(r"\W+|([A-Z][^A-Z\W]*)", word) from position i on: `cur` is the text
\* since the last match, `acc` the pieces so far.
RECURSIVE Split(_, _, _, _)
Split(word, i, cur, acc) ==
    IF i > Len(word) THEN Keep(acc, cur)
    ELSE IF ~IsWord(Char(word, i)) THEN Split(word, i + 1, "", Keep(acc, cur))
    ELSE IF IsUpper(Char(word, i))
    THEN LET j == RunEnd(word, i)
         IN  Split(word, j + 1, "", Keep(Keep(acc, cur), SubSeq(word, i, j)))
    ELSE Split(word, i + 1, cur \o Char(word, i), acc)

separate_terms(word) == Split(word, 1, "", <<>>)

----------------------------------------------------------------------------
(* SummaryWriter                                                            *)

_IGNORE == {"description", "default", "title", "examples"}

_guess_inline_defs ==
    {"enum", "const", "maxLength", "minLength", "pattern", "format", "minimum",
     "maximum", "exclusiveMinimum", "exclusiveMaximum", "multipleOf"}

\* self.jargon.get(term, term), for a table j
Lookup(j, term) == IF term \in DOMAIN j THEN j[term] ELSE term

_jargon(term) == Lookup(jargon, term)

\* self._terms as __init__ builds it from the jargon table j
InitTerms(j) ==
    [key \in {"anyOf", "oneOf", "allOf", "not", "prefixItems", "items", "contains",
              "propertyNames", "patternProperties", "const"} |->
        CASE key = "anyOf" -> "at least one of the following"
          [] key = "oneOf" -> "exactly one of the following"
          [] key = "allOf" -> "all of the following"
          [] key = "not" -> "(*NOT* the following)"
          [] key = "prefixItems" -> Lookup(j, "items") \o " (in order)"
          [] key = "items" -> "items"
          [] key = "contains" -> "contains at least one of"
          [] key = "propertyNames" ->
                "non-predefined acceptable " \o Lookup(j, "property names")
          [] key = "patternProperties" -> Lookup(j, "properties") \o " named via pattern"
          [] key = "const" -> "predefined value"]

_child_prefix(parent_prefix, child_prefix) == Spaces(Len(parent_prefix)) \o child_prefix

\* The loop of _is_property over path[-2::-1], from index i down.
RECURSIVE CountContainers(_, _)
CountContainers(path, i) ==
    IF i < 1 THEN 0
    ELSE IF path[i] \notin {"properties", "patternProperties"} THEN 0
    ELSE 1 + CountContainers(path, i - 1)

\* _is_property, had it looked at the parent segment alone.
_is_property_parent_only(path) ==
    Len(path) >= 2 /\ path[Len(path) - 1] \in {"properties", "patternProperties"}

_is_property(path) ==
    IF path = <<>> THEN FALSE
    ELSE CountContainers(path, Len(path) - 1) % 2 = 1

_label(path) ==
    LET key == path[Len(path)]
        parents == SubSeq(path, 1, Len(path) - 1)
    IN  IF ~_is_property(path)
        THEN LET norm_key == separate_terms(key)
             IN  IF key \in DOMAIN terms /\ terms[key] # ""
                 THEN terms[key]
                 ELSE JoinText(" ", [i \in 1..Len(norm_key) |-> _jargon(norm_key[i])])
        ELSE IF parents[Len(parents)] = "patternProperties"
        THEN "(regex " \o StrRepr(key) \o ")"
        ELSE StrRepr(key)

\* A list or a dict is unhashable: dict.get raises TypeError.
_value(value, path) ==
    IF ~_is_property(path) /\ path[Len(path)] = "type"
    THEN IF IsContainer(value) THEN Raise("TypeError")
         ELSE IF value.t = "str" THEN Ok(_jargon(value.s))
         ELSE Ok(format(value))
    ELSE Ok(repr(value))

_inline_attrs(value, path) ==
    [i \in 1..Len(value.kids) |->
        LET child_path == Append(path, value.kids[i].k)
        IN  Cat(Ok(_label(child_path) \o ": "), _value(value.kids[i].v, child_path))]

Unnecessary(key) ==
    (key # "" /\ Char(key, 1) \in {"$", "_"}) \/ key \in _IGNORE

_filter_unecessary(value) ==
    [value EXCEPT !.kids = SelectSeq(value.kids, LAMBDA kv : ~Unnecessary(kv.k))]

\* _handle_simple_dict, had it left out the line break after the brace.
_handle_simple_dict_unterminated(value, path) ==
    LET inline == \E i \in 1..Len(value.kids) : value.kids[i].k \in _guess_inline_defs
        simple == ~\E i \in 1..Len(value.kids) : IsContainer(value.kids[i].v)
    IN  IF inline \/ simple
        THEN Cat(Cat(Ok("{"), join(", ", _inline_attrs(value, path))), Ok("}"))
        ELSE None

_handle_simple_dict(value, path) ==
    LET inline == \E i \in 1..Len(value.kids) : value.kids[i].k \in _guess_inline_defs
        simple == ~\E i \in 1..Len(value.kids) : IsContainer(value.kids[i].v)
    IN  IF inline \/ simple
        THEN Cat(Cat(Ok("{"), join(", ", _inline_attrs(value, path))), Ok("}\n"))
        ELSE None


\* len(repr_) < 60
ReprLimit == 60

RECURSIVE __call__(_, _, _)
RECURSIVE _handle_list(_, _, _)
RECURSIVE write_items(_, _, _, _)

_handle_list(schemas, prefix, path) ==
    LET repr_ == repr(schemas)
    IN  IF (\A i \in 1..Len(schemas.kids) : ~IsContainer(schemas.kids[i].v))
           /\ Len(repr_) < ReprLimit
        THEN Ok(repr_ \o "\n")
        ELSE LET item_prefix == _child_prefix(prefix, "- ")
             IN  join("", [i \in 1..Len(schemas.kids) |->
                        __call__(schemas.kids[i].v, item_prefix,
                                 Append(path, "[" \o IntRepr(i - 1) \o "]"))])

\* The loop of __call__ over filtered.items(), from item i on.
write_items(filtered, i, prefix, path) ==
    IF i > Len(filtered.kids) THEN Ok("")
    ELSE LET key == filtered.kids[i].k
             value == filtered.kids[i].v
             child_prefix == _child_prefix(prefix, "  ")
             item_prefix == _child_prefix(prefix, "- ")
             indent == Spaces(Len(prefix))
             child_path == Append(path, key)
             head == Ok((IF i = 1 THEN prefix ELSE indent) \o _label(child_path) \o ":")
             body ==
                 IF value.t = "dict"
                 THEN LET simple == _handle_simple_dict(_filter_unecessary(value), child_path)
                      IN  IF simple.exc # "" THEN simple
                          ELSE IF ~simple.none THEN Ok(" " \o simple.s)
                          ELSE Cat(Ok("\n"), __call__(value, child_prefix, child_path))
                 ELSE IF value.t = "list"
                 THEN LET children == _handle_list(value, item_prefix, child_path)
                          sep == IF children.s # "" /\ Char(children.s, 1) = "[" THEN " " ELSE "\n"
                      IN  Cat(Ok(sep), children)
                 ELSE Ok(" " \o repr(value) \o "\n")
         IN  Cat(Cat(head, body), write_items(filtered, i + 1, prefix, path))

\* A scalar has no .items(): _filter_unecessary raises AttributeError.
__call__(node, prefix, path) ==
    IF node.t = "list" THEN _handle_list(node, prefix, path)
    ELSE IF node.t # "dict" THEN Raise("AttributeError")
    ELSE LET filtered == _filter_unecessary(node)
             simple == _handle_simple_dict(filtered, path)
         IN  IF simple.exc # "" THEN simple
             ELSE IF ~simple.none THEN Ok(prefix \o simple.s)
             ELSE write_items(filtered, 1, prefix, path)

\* The list object bound to _path once a call on `node` has returned, had line 89
\* extended it in place (_path.append(key)) instead of building [*_path, key].
_path_appended(node, path) ==
    IF node.t = "dict" /\ node.kids # <<>> THEN Append(path, node.kids[1].k) ELSE path

\* The list object bound to _path once a call has returned: __call__ and
\* _handle_list only read it, every child path is a new list.
_path_after_call(node, path) == path

----------------------------------------------------------------------------
(* Schema trees the caller passes                                           *)

Str(s) == [t |-> "str", s |-> s, n |-> 0, kids |-> <<>>]

Num(n) == [t |-> "int", s |-> "", n |-> n, kids |-> <<>>]

Null == [t |-> "null", s |-> "", n |-> 0, kids |-> <<>>]

KV(k, v) == [k |-> k, v |-> v]

Dict(items) == [t |-> "dict", s |-> "", n |-> 0, kids |-> items]

List(elems) ==
    [t |-> "list", s |-> "", n |-> 0, kids |-> [i \in 1..Len(elems) |-> KV("", elems[i])]]

MaxWrap == 3

MaxPathLen == 3

MaxCalls == 3

\* A string of 56 characters: the repr of the list holding it alone has 60.
LongText == "abcdefghijklmnopqrstuvwxyzabcdefghijklmnopqrstuvwxyzabcd"

Leaves == {Str("object"), Str("x\ny"), Num(42)}

Cores == Leaves \cup {Dict(<<>>), List(<<>>), List(<<Num(42)>>)}

WrapKeys == {"properties", "type", "title", "a"}

Firsts == {Num(7), Str(LongText)}

HasKey(node, k) == \E i \in 1..Len(node.kids) : node.kids[i].k = k

\* One more level around a tree x: under a key, in a list, with a `type` before
\* or a `minLength` after the items of a mapping, with an element before those
\* of a list.
Wrap(x) ==
    {Dict(<<KV(k, x)>>) : k \in WrapKeys}
    \cup {List(<<x>>)}
    \cup (IF x.t = "dict" /\ ~HasKey(x, "type")
          THEN {Dict(<<KV("type", Str("object"))>> \o x.kids)} ELSE {})
    \cup (IF x.t = "dict" /\ ~HasKey(x, "minLength")
          THEN {Dict(x.kids \o <<KV("minLength", Num(3))>>)} ELSE {})
    \cup (IF x.t = "list"
          THEN {[x EXCEPT !.kids = <<KV("", e)>> \o @] : e \in Firsts} ELSE {})

RECURSIVE Trees(_)
Trees(d) ==
    IF d = 0 THEN Cores
    ELSE LET below == Trees(d - 1) IN below \cup UNION {Wrap(x) : x \in below}

\* The inputs of the docstring and of the specification's examples
Examples ==
    {Dict(<<KV("enum", List(<<Str("A"), Str("B"), Str("C")>>))>>),
     Dict(<<KV("const", Num(42))>>),
     Dict(<<KV("not", Dict(<<KV("type", Str("number"))>>))>>),
     Dict(<<KV("type", Str("number")), KV("minimum", Num(3)), KV("maximum", Num(4))>>),
     Dict(<<KV("type", Str("string")), KV("pattern", Str(".*"))>>),
     Dict(<<KV("properties", Dict(<<KV("items", Dict(<<KV("type", Str("string"))>>))>>))>>),
     Dict(<<KV("type", Str("object")),
            KV("properties", Dict(<<KV("a", Dict(<<KV("type", Str("object"))>>))>>))>>),
     Dict(<<KV("$id", Str("x")), KV("anyOf", List(<<Dict(<<KV("type", Str("object"))>>),
                                                    List(<<Num(1), Num(2)>>)>>))>>)}

Prefixes == {"", "- "}

Segments == {"properties", "patternProperties", "a"}

RECURSIVE Paths(_)
Paths(n) ==
    IF n = 0 THEN {<<>>}
    ELSE LET shorter == Paths(n - 1)
         IN  shorter \cup {Append(p, s) : p \in shorter, s \in Segments}

PathKeys == {"type", "items", "minLength", "a-B", "properties", "title"}

OneKey == {Dict(<<KV(k, v)>>) : k \in PathKeys, v \in Leaves}

NoJargon == [term \in {} |-> ""]

ObjectTable == [term \in {"object"} |-> "table"]

TOML_JARGON ==
    [term \in {"object", "property", "properties", "property names"} |->
        CASE term = "object" -> "table"
          [] term = "property" -> "key"
          [] term = "properties" -> "keys"
          [] term = "property names" -> "keys"]

JargonTables == {NoJargon, ObjectTable, TOML_JARGON}

----------------------------------------------------------------------------
(* The writer and its calls                                                 *)

NoArgs == [schema |-> Null, prefix |-> "", given |-> FALSE, path |-> <<>>]

\* What is remembered of the first call made on the writer, and whether a call
\* with other arguments has been made since.
NoCall == [called |-> FALSE, args |-> NoArgs, result |-> None, others |-> FALSE]

\* SummaryWriter(jargon): __init__ stores the table and builds _terms from it.
\* The default of _path is the one list made when the method was defined.
Init ==
    /\ jargon \in JargonTables
    /\ terms = InitTerms(jargon)
    /\ defaultPath = <<>>
    /\ ncalls = 0
    /\ args = NoArgs
    /\ schema = Null
    /\ result = None
    /\ first = NoCall

\* writer(s, p) when no path is given, writer(s, p, _path=pa) otherwise.  `schema`
\* is the caller's tree after the call, `args` what the caller passed.
Call(s, p, given, pa) ==
    LET path == IF given THEN pa ELSE defaultPath
        returned == __call__(s, p, path)
        passed == [schema |-> s, prefix |-> p, given |-> given, path |-> pa]
    IN  /\ args' = passed
        /\ schema' = s
        /\ result' = returned
        /\ defaultPath' = IF given THEN defaultPath ELSE _path_after_call(s, defaultPath)
        /\ ncalls' = ncalls + 1
        /\ first' = IF ncalls = 0
                    THEN [called |-> TRUE, args |-> passed, result |-> returned,
                          others |-> FALSE]
                    ELSE [first EXCEPT !.others = @ \/ passed # first.args]
        /\ UNCHANGED <<jargon, terms>>

\* One call on a tree of any shape, from the root.
CallTree ==
    /\ ncalls = 0
    /\ \E s \in Trees(MaxWrap) \cup Examples, p \in Prefixes : Call(s, p, FALSE, <<>>)

\* One call on a one-key mapping at any path.
CallAtPath ==
    /\ ncalls = 0
    /\ \E s \in OneKey, p \in Prefixes, pa \in Paths(MaxPathLen) : Call(s, p, TRUE, pa)

Next == CallTree \/ CallAtPath

Spec == Init /\ [][Next]_vars

\* Calls one after the other on the same writer.
CallAgain ==
    /\ ncalls < MaxCalls
    /\ \E s \in Examples \cup {List(<<Num(42)>>), Str("object")}, p \in Prefixes :
            \/ Call(s, p, FALSE, <<>>)
            \/ Call(s, p, TRUE, <<"properties">>)

NextAgain == CallAgain

SpecAgain == Init /\ [][NextAgain]_vars

----------------------------------------------------------------------------
(* What the claims speak of                                                 *)

Called == ncalls > 0

Returned == Called /\ result.exc = "" /\ ~result.none

\* The path the last call worked with: the default list is empty.
EffPath == IF args.given THEN args.path ELSE <<>>

StartsWith(s, p) == Len(s) >= Len(p) /\ SubSeq(s, 1, Len(p)) = p

EndsWith(s, p) == Len(s) >= Len(p) /\ SubSeq(s, Len(s) - Len(p) + 1, Len(s)) = p

Occurrences(s, sub) == {i \in 1..(Len(s) - Len(sub) + 1) : SubSeq(s, i, i + Len(sub) - 1) = sub}

Contains(s, sub) == Occurrences(s, sub) # {}

Count(s, sub) == Cardinality(Occurrences(s, sub))

RECURSIVE LStrip(_)
LStrip(s) == IF s # "" /\ Head(s) = " " THEN LStrip(Tail(s)) ELSE s

RECURSIVE Sum(_)
Sum(ns) == IF ns = <<>> THEN 0 ELSE Head(ns) + Sum(Tail(ns))

Containers == {"properties", "patternProperties"}

\* How many segments at the end of path p, one after the other, name a container
\* of properties.
TrailCount(p) ==
    CHOOSE c \in 0..Len(p) :
        /\ \A i \in (Len(p) - c + 1)..Len(p) : p[i] \in Containers
        /\ c = Len(p) \/ p[Len(p) - c] \notin Containers

\* Every element a scalar and the literal list shorter than 60 characters.
Collapses(list) ==
    /\ \A i \in 1..Len(list.kids) : list.kids[i].v.t \notin {"dict", "list"}
    /\ Len(repr(list)) < ReprLimit

\* A mapping whose values, the filtered keys aside, are all scalars.
Flat(node) ==
    /\ node.t = "dict"
    /\ \A i \in 1..Len(node.kids) :
            Unnecessary(node.kids[i].k) \/ node.kids[i].v.t \notin {"dict", "list"}

\* C1: every call on a tree of mappings, sequences and scalars returns a string
\* and raises nothing.
AlwaysReturns == (Called /\ IsContainer(args.schema)) => Returned

RECURSIVE TypePlaces(_, _)
TypePlaces(node, path) ==
    Sum([i \in 1..Len(node.kids) |->
          LET kv == node.kids[i]
              child_path == Append(path, IF node.t = "dict" THEN kv.k
                                         ELSE "[" \o IntRepr(i - 1) \o "]")
          IN  IF node.t = "dict" /\ Unnecessary(kv.k) THEN 0
              ELSE (IF node.t = "dict" /\ kv.k = "type" /\ kv.v = Str("object")
                       /\ TrailCount(path) % 2 = 0
                    THEN 1 ELSE 0) + TypePlaces(kv.v, child_path)])

\* C3: with "object" -> "table" in the jargon table the summary shows `table` at
\* every keyword-position `type` whose value is "object", inline or in a block;
\* with no jargon table it shows `object` there.
JargonAtEveryType ==
    Returned =>
        /\ Lookup(jargon, "object") = "table" =>
                Count(result.s, "table") >= TypePlaces(args.schema, EffPath)
        /\ jargon = NoJargon =>
                Count(result.s, "object") >= TypePlaces(args.schema, EffPath)

\* C4: a sequence of scalars with a literal shorter than 60 characters is one line
\* that starts with `[`; any other sequence is rendered as blocks, one per element
\* (so at least a line each), behind a `- ` marker.
ListShape ==
    (Called /\ args.schema.t = "list") =>
        /\ Returned
        /\ IF Collapses(args.schema)
           THEN /\ Count(result.s, "\n") = 1
                /\ StartsWith(result.s, "[")
           ELSE /\ Count(result.s, "\n") >= Len(args.schema.kids)
                /\ StartsWith(LStrip(result.s), "- ")

\* The last call rendered a one-key mapping with a scalar value at a given path.
AtPath ==
    /\ Returned
    /\ args.given
    /\ args.schema.t = "dict"
    /\ Len(args.schema.kids) = 1
    /\ ~IsContainer(args.schema.kids[1].v)
    /\ ~Unnecessary(args.schema.kids[1].k)

TheKey == args.schema.kids[1].k

\* The label of a key read as a keyword: its phrase, or its lowercase words, each
\* through the jargon table.
KeywordText(k) ==
    CASE k = "type" -> "type"
      [] k = "items" -> "items"
      [] k = "minLength" -> "min length"
      [] k = "a-B" -> "a b"
      [] k = "properties" -> Lookup(jargon, "properties")

Shown(text) == StartsWith(result.s, args.prefix \o "{" \o text \o ": ")

ShownKeyword == Shown(KeywordText(TheKey))

ShownQuoted == Shown("'" \o TheKey \o "'")

ShownRegex == Shown("(regex '" \o TheKey \o "')")

\* C5 as stated: a key under `properties` is a property name, a key under
\* `properties.<name>.properties` a keyword, a key one `properties` level further
\* down a property name again.
AlternationByLevel ==
    AtPath =>
        LET p == args.path
        IN  /\ p = <<"properties">> => ShownQuoted
            /\ (Len(p) = 3 /\ p[1] = "properties" /\ p[3] = "properties") => ShownKeyword
            /\ (Len(p) = 5 /\ p[1] = "properties" /\ p[3] = "properties"
                    /\ p[5] = "properties") => ShownQuoted

\* C5 amended: what decides is the number of `properties`/`patternProperties`
\* segments that end the path of the mapping, one directly after the other: odd,
\* the key is a property name, shown quoted (as a regex under patternProperties);
\* even, it is a keyword, looked up in the keyword and jargon tables.
AlternationByCount ==
    AtPath =>
        LET p == args.path
        IN  IF TrailCount(p) % 2 = 1
            THEN IF p[Len(p)] = "patternProperties" THEN ShownRegex ELSE ShownQuoted
            ELSE ShownKeyword

\* Under properties.properties the keyword `min length` is shown.
AlternationWitness ==
    /\ AtPath
    /\ args.path = <<"properties", "properties">>
    /\ TheKey = "minLength"
    /\ ShownKeyword

\* The filtered keys of a tree, at any depth.
RECURSIVE HiddenKeys(_)
HiddenKeys(node) ==
    UNION {(IF node.t = "dict" /\ Unnecessary(node.kids[i].k) THEN {node.kids[i].k} ELSE {})
           \cup HiddenKeys(node.kids[i].v) : i \in 1..Len(node.kids)}

\* C6: no filtered key of the tree, at any depth, appears in the summary.
HiddenKeysAbsent ==
    Returned => \A k \in HiddenKeys(args.schema) : ~Contains(result.s, k)

\* C7: a mapping whose values are all scalars is rendered as one brace group on
\* exactly one line, after the prefix.
FlatOnOneLine ==
    (Called /\ Flat(args.schema)) =>
        /\ Returned
        /\ StartsWith(result.s, args.prefix \o "{")
        /\ EndsWith(result.s, "}\n")
        /\ Count(result.s, "\n") = 1

\* The calls of __call__, _handle_list and _handle_simple_dict that a call makes,
\* itself included.
RECURSIVE CallsOf(_, _, _)
RECURSIVE ListCallsOf(_, _, _)
CallsOf(node, prefix, path) ==
    {[f |-> "__call__", node |-> node, prefix |-> prefix, path |-> path]} \cup
    IF node.t = "list" THEN ListCallsOf(node, prefix, path)
    ELSE IF node.t # "dict" THEN {}
    ELSE LET filtered == _filter_unecessary(node)
         IN  {[f |-> "_handle_simple_dict", node |-> filtered, prefix |-> "", path |-> path]}
             \cup
             IF ~_handle_simple_dict(filtered, path).none THEN {}
             ELSE UNION {
                 LET value == filtered.kids[i].v
                     child_path == Append(path, filtered.kids[i].k)
                 IN  IF value.t = "dict"
                     THEN {[f |-> "_handle_simple_dict", node |-> _filter_unecessary(value),
                            prefix |-> "", path |-> child_path]}
                          \cup
                          IF _handle_simple_dict(_filter_unecessary(value), child_path).none
                          THEN CallsOf(value, _child_prefix(prefix, "  "), child_path)
                          ELSE {}
                     ELSE IF value.t = "list"
                     THEN ListCallsOf(value, _child_prefix(prefix, "- "), child_path)
                     ELSE {}
                 : i \in 1..Len(filtered.kids)}

ListCallsOf(node, prefix, path) ==
    {[f |-> "_handle_list", node |-> node, prefix |-> prefix, path |-> path]} \cup
    IF Collapses(node) THEN {}
    ELSE UNION {CallsOf(node.kids[i].v, _child_prefix(prefix, "- "),
                        Append(path, "[" \o IntRepr(i - 1) \o "]"))
                : i \in 1..Len(node.kids)}

ReturnOf(c) ==
    CASE c.f = "__call__" -> __call__(c.node, c.prefix, c.path)
      [] c.f = "_handle_list" -> _handle_list(c.node, c.prefix, c.path)
      [] c.f = "_handle_simple_dict" -> _handle_simple_dict(c.node, c.path)

PrefixFirst == Returned => StartsWith(result.s, args.prefix)

\* C10: in a block, the sequence that is the value of the first key follows its
\* `label:` on the same line if and only if the whole sequence collapses to the
\* one-line literal.
SameLineIffCollapsed ==
    LET filtered == _filter_unecessary(args.schema)
    IN  (/\ Returned
         /\ args.schema.t = "dict"
         /\ filtered.kids # <<>>
         /\ filtered.kids[1].v.t = "list"
         /\ _handle_simple_dict(filtered, EffPath).none) =>
            LET head == args.prefix \o _label(Append(EffPath, filtered.kids[1].k)) \o ":"
            IN  /\ StartsWith(result.s, head)
                /\ Char(result.s, Len(head) + 1) = " " <=> Collapses(filtered.kids[1].v)

=============================================================================
